---- MODULE Spec2Model ----
(***************************************************************************)
(* Model of the docker-stats log parser and renderer                       *)
(* (src/stats_visualizer.py).                                              *)
(*                                                                         *)
(* A Python str is a sequence of one-character strings; the byte 0x1B is   *)
(* the character ESC.  A Python float is an exact number n * 2^x / 5^y in   *)
(* canonical form (every product the program forms is a product with a     *)
(* power of two, which binary floating point performs exactly), or nan, or *)
(* an infinity.                                                            *)
(***************************************************************************)
EXTENDS Integers, Sequences, FiniteSets, TLC

VARIABLES pc, arg, ret, consumed, prev, data, df, containers, idx, fig

vars == <<pc, arg, ret, consumed, prev, data, df, containers, idx, fig>>

(* ------------------------------ bounds --------------------------------- *)

\* lines read from one file
MaxLines == 2

\* longest digit/dot run of a generated size token
MaxNumLen == 3

\* longest raw line handed to clean_line on its own
MaxRawLen == 4

\* containers of one batch of log lines, and batches, handed to the renderer
MaxEntities == 12

MaxBatches == 2

(* ---------------------------- characters ------------------------------- *)

ESC == "ESC"
TAB == "\t"
NL == "\n"

DigitSeq == <<"0", "1", "2", "3", "4", "5", "6", "7", "8", "9">>

LowerSeq == <<"a", "b", "c", "d", "e", "f", "g", "h", "i", "j", "k", "l", "m",
              "n", "o", "p", "q", "r", "s", "t", "u", "v", "w", "x", "y", "z">>

UpperSeq == <<"A", "B", "C", "D", "E", "F", "G", "H", "I", "J", "K", "L", "M",
              "N", "O", "P", "Q", "R", "S", "T", "U", "V", "W", "X", "Y", "Z">>

Range(f) == {f[k] : k \in DOMAIN f}

\* regex class \d
IsDigit(c) == c \in Range(DigitSeq)

\* regex class [A-Za-z]
IsLetter(c) == c \in Range(LowerSeq) \cup Range(UpperSeq)

\* the characters str.strip() removes (those of the modelled alphabet)
IsSpace(c) == c \in {" ", TAB, NL, "\r"}

DigitVal(c) == (CHOOSE k \in DOMAIN DigitSeq : DigitSeq[k] = c) - 1

\* str.lower() on one character
LowerChar(c) ==
    IF c \in Range(UpperSeq)
    THEN LowerSeq[CHOOSE k \in DOMAIN UpperSeq : UpperSeq[k] = c]
    ELSE c

UpperChar(c) ==
    IF c \in Range(LowerSeq)
    THEN UpperSeq[CHOOSE k \in DOMAIN LowerSeq : LowerSeq[k] = c]
    ELSE c

(* ------------------------------ strings -------------------------------- *)

lower(s) == [k \in DOMAIN s |-> LowerChar(s[k])]

Drop(s, k) == SubSeq(s, k + 1, Len(s))

Take(s, k) == SubSeq(s, 1, k)

RECURSIVE lstrip(_)
lstrip(s) == IF s # <<>> /\ IsSpace(s[1]) THEN lstrip(Tail(s)) ELSE s

RECURSIVE rstrip(_)
rstrip(s) ==
    IF s # <<>> /\ IsSpace(s[Len(s)]) THEN rstrip(Take(s, Len(s) - 1)) ELSE s

\* str.strip()
strip(s) == rstrip(lstrip(s))

\* str.split(sep) for a one-character separator
RECURSIVE split(_, _)
split(s, sep) ==
    IF \A k \in DOMAIN s : s[k] # sep
    THEN <<s>>
    ELSE LET p == CHOOSE k \in DOMAIN s :
                      s[k] = sep /\ \A j \in 1..(k - 1) : s[j] # sep
         IN  <<Take(s, p - 1)>> \o split(Drop(s, p), sep)

StartsWith(s, t) == Len(s) >= Len(t) /\ Take(s, Len(t)) = t

\* str.replace(old, ''): every non-overlapping occurrence, left to right
RECURSIVE remove(_, _)
remove(s, old) ==
    IF s = <<>> THEN s
    ELSE IF StartsWith(s, old) THEN remove(Drop(s, Len(old)), old)
    ELSE <<s[1]>> \o remove(Tail(s), old)

\* length of the longest prefix of s whose characters all satisfy the class
RECURSIVE RunLen(_, _)
RunLen(s, cls) ==
    IF s # <<>> /\ s[1] \in cls THEN 1 + RunLen(Tail(s), cls) ELSE 0

DigitChars == Range(DigitSeq)

LetterChars == Range(LowerSeq) \cup Range(UpperSeq)

(* ------------------------------ numbers -------------------------------- *)

\* the number n * 2^x / 5^y, n odd, and n not a multiple of 5 unless y = 0
RECURSIVE Norm(_, _, _)
Norm(n, x, y) ==
    IF n = 0 THEN [n |-> 0, x |-> 0, y |-> 0]
    ELSE IF n % 2 = 0 THEN Norm(n \div 2, x + 1, y)
    ELSE IF y > 0 /\ n % 5 = 0 THEN Norm(n \div 5, x, y - 1)
    ELSE [n |-> n, x |-> x, y |-> y]

Fin(neg, m) == [kind |-> "fin", neg |-> neg /\ m.n # 0, n |-> m.n, x |-> m.x, y |-> m.y]

Zero == Fin(FALSE, Norm(0, 0, 0))

NaN == [kind |-> "nan", neg |-> FALSE, n |-> 0, x |-> 0, y |-> 0]

Inf(neg) == [kind |-> "inf", neg |-> neg, n |-> 0, x |-> 0, y |-> 0]

\* the number k * 2^e
Pow2(k, e) == Fin(FALSE, Norm(k, e, 0))

\* float * float
Times(a, b) ==
    IF a.kind = "nan" \/ b.kind = "nan" THEN NaN
    ELSE IF a.kind = "inf" \/ b.kind = "inf"
    THEN IF (a.kind = "fin" /\ a.n = 0) \/ (b.kind = "fin" /\ b.n = 0)
         THEN NaN ELSE Inf(a.neg # b.neg)
    ELSE Fin(a.neg # b.neg, Norm(a.n * b.n, a.x + b.x, a.y + b.y))

IsFiniteNonNeg(v) == v.kind = "fin" /\ ~v.neg

RECURSIVE DigitsValue(_)
DigitsValue(ds) ==
    IF ds = <<>> THEN 0
    ELSE 10 * DigitsValue(Take(ds, Len(ds) - 1)) + DigitVal(ds[Len(ds)])

\* whether s is digits with at most one '.', and at least one digit
IsDecimal(s) ==
    /\ \A k \in DOMAIN s : IsDigit(s[k]) \/ s[k] = "."
    /\ Cardinality({k \in DOMAIN s : s[k] = "."}) <= 1
    /\ \E k \in DOMAIN s : IsDigit(s[k])

\* the value of a decimal numeral
DecimalValue(s) ==
    LET digits == remove(s, <<".">>)
        frac == IF \E k \in DOMAIN s : s[k] = "."
                THEN Len(s) - (CHOOSE k \in DOMAIN s : s[k] = ".")
                ELSE 0
    IN  Norm(DigitsValue(digits), -frac, frac)

Raise(e) == [exc |-> e, v |-> Zero]

Return(v) == [exc |-> "none", v |-> v]

\* float() of the unsigned body of a numeral: "nan", "inf", "infinity" in
\* any letter case, or a decimal
float_body(neg, body, word) ==
    IF word = <<"n", "a", "n">> THEN Return(NaN)
    ELSE IF word = <<"i", "n", "f">>
            \/ word = <<"i", "n", "f", "i", "n", "i", "t", "y">>
    THEN Return(Inf(neg))
    ELSE IF IsDecimal(body) THEN Return(Fin(neg, DecimalValue(body)))
    ELSE Raise("ValueError")

\* float() of a numeral without surrounding whitespace: one sign is allowed
float_signed(t) ==
    IF t # <<>> /\ t[1] \in {"+", "-"}
    THEN float_body(t[1] = "-", Tail(t), lower(Tail(t)))
    ELSE float_body(FALSE, t, lower(t))

\* float(s), for s over signs, digits, '.', letters and blanks (numerals with
\* an exponent or underscores are not among the inputs of the model)
float(s) == float_signed(strip(s))

(* ------------------------------ parse_size ----------------------------- *)

\* re.match(r'([\d.]+)([A-Za-z]+)', s): both runs are greedy and their
\* classes are disjoint, so each group is the longest run at its place
SizeMatch(s) ==
    LET n == RunLen(s, DigitChars \cup {"."})
        u == RunLen(Drop(s, n), LetterChars)
    IN  [matched |-> n > 0 /\ u > 0,
         value |-> Take(s, n),
         unit |-> Take(Drop(s, n), u)]

\* a faulty variant of multipliers: the decimal suffixes as powers of 1000
multipliers_metric ==
    << [unit |-> <<"b">>, mult |-> Pow2(1, -20)],
       [unit |-> <<"k", "b">>, mult |-> Fin(FALSE, Norm(1, -3, 3))],
       [unit |-> <<"m", "b">>, mult |-> Pow2(1, 0)],
       [unit |-> <<"g", "b">>, mult |-> Pow2(1000, 0)],
       [unit |-> <<"t", "b">>, mult |-> Pow2(1000000, 0)],
       [unit |-> <<"k", "i", "b">>, mult |-> Pow2(1, -10)],
       [unit |-> <<"m", "i", "b">>, mult |-> Pow2(1, 0)],
       [unit |-> <<"g", "i", "b">>, mult |-> Pow2(1024, 0)],
       [unit |-> <<"t", "i", "b">>, mult |-> Pow2(1024, 10)] >>

Entry(unit, mult) == [unit |-> unit, mult |-> mult]

multipliers ==
    << Entry(<<"b">>, Pow2(1, -20)),
       Entry(<<"k", "b">>, Pow2(1, -10)),
       Entry(<<"m", "b">>, Pow2(1, 0)),
       Entry(<<"g", "b">>, Pow2(1024, 0)),
       Entry(<<"t", "b">>, Pow2(1024, 10)),
       Entry(<<"k", "i", "b">>, Pow2(1, -10)),
       Entry(<<"m", "i", "b">>, Pow2(1, 0)),
       Entry(<<"g", "i", "b">>, Pow2(1024, 0)),
       Entry(<<"t", "i", "b">>, Pow2(1024, 10)) >>

\* multipliers.get(unit, 0)
multipliers_get(unit) ==
    IF \E k \in DOMAIN multipliers : multipliers[k].unit = unit
    THEN multipliers[CHOOSE k \in DOMAIN multipliers : multipliers[k].unit = unit].mult
    ELSE Zero

\* value * multipliers.get(unit, 0), once float(match.group(1)) has returned
scale(value, unit) ==
    IF value.exc # "none" THEN Raise(value.exc)
    ELSE Return(Times(value.v, multipliers_get(unit)))

\* parse_size after the regular expression has been applied
size_of_match(match) ==
    IF match.matched
    THEN scale(float(match.value), lower(match.unit))
    ELSE Return(Zero)

parse_size(size_str) ==
    IF size_str = <<>> \/ size_str = <<"0", "B">> THEN Return(Zero)
    ELSE size_of_match(SizeMatch(strip(size_str)))

(* ------------------------------ clean_line ----------------------------- *)

\* length of the match of r'\[([0-9;]*[A-Za-z]|\[K)' at the start of s, or 0:
\* the first alternative needs a letter right after the longest parameter run
ControlMatchLen(s) ==
    IF s = <<>> \/ s[1] # "[" THEN 0
    ELSE LET p == RunLen(Tail(s), DigitChars \cup {";"}) IN
         IF Len(s) >= p + 2 /\ IsLetter(s[p + 2]) THEN p + 2
         ELSE IF Len(s) >= 3 /\ s[2] = "[" /\ s[3] = "K" THEN 3
         ELSE 0

\* length of the match of r'(\[H|\[J|\[K)' at the start of s, or 0
MarkerMatchLen(s) ==
    IF Len(s) >= 2 /\ s[1] = "[" /\ s[2] \in {"H", "J", "K"} THEN 2 ELSE 0

\* re.sub(r'\[([0-9;]*[A-Za-z]|\[K)', '', s): leftmost matches, no overlap
RECURSIVE sub_control(_)
sub_control(s) ==
    IF s = <<>> THEN s
    ELSE IF ControlMatchLen(s) > 0 THEN sub_control(Drop(s, ControlMatchLen(s)))
    ELSE <<s[1]>> \o sub_control(Tail(s))

\* re.sub(r'(\[H|\[J|\[K)', '', s)
RECURSIVE sub_marker(_)
sub_marker(s) ==
    IF s = <<>> THEN s
    ELSE IF MarkerMatchLen(s) > 0 THEN sub_marker(Drop(s, MarkerMatchLen(s)))
    ELSE <<s[1]>> \o sub_marker(Tail(s))

clean_line(line) == strip(sub_marker(sub_control(line)))

(* --------------------------- parse_docker_stats ------------------------ *)

\* pd.to_datetime(s) on the tokens of the model: a time of day "HH:MM" is
\* the minute of the day, anything else is a ValueError
to_datetime(s) ==
    IF /\ Len(s) = 5
       /\ s[3] = ":"
       /\ \A k \in {1, 2, 4, 5} : IsDigit(s[k])
       /\ DigitsValue(Take(s, 2)) < 24
       /\ DigitsValue(Drop(s, 3)) < 60
    THEN [exc |-> "none", t |-> 60 * DigitsValue(Take(s, 2)) + DigitsValue(Drop(s, 3))]
    ELSE [exc |-> "ValueError", t |-> 0]

TagName == <<"n", "a", "m", "e", "=">>

TagCpu == <<"c", "p", "u", "=">>

TagMem == <<"m", "e", "m", "=">>

TagNet == <<"n", "e", "t", "=">>

TagBlock == <<"b", "l", "o", "c", "k", "=">>

NoPair(e) == [exc |-> e, a |-> Zero, b |-> Zero]

\* the two sizes of a pair, or the exception that one of them raised
pair_of(first, second) ==
    IF first.exc # "none" THEN NoPair(first.exc)
    ELSE IF second.exc # "none" THEN NoPair(second.exc)
    ELSE [exc |-> "none", a |-> first.v, b |-> second.v]

\* a faulty variant of pair_of_parts: a missing second part counts as 0
pair_of_parts_lenient(x_parts) ==
    pair_of(parse_size(strip(x_parts[1])),
            IF Len(x_parts) < 2 THEN Return(Zero)
            ELSE parse_size(strip(x_parts[2])))

\* parse_size(x_parts[0].strip()), then parse_size(x_parts[1].strip()): the
\* first size is computed before the second part is indexed, and x_parts[1]
\* of a one-element list is an IndexError
pair_of_parts(x_parts) ==
    pair_of(parse_size(strip(x_parts[1])),
            IF Len(x_parts) < 2 THEN Raise("IndexError")
            ELSE parse_size(strip(x_parts[2])))

\* x_parts = field.split('/'), and the two sizes
parse_pair(field) == pair_of_parts(split(field, "/"))

\* a faulty variant of has_block: the comparison is off by one
has_block_from_5(parts) == Len(parts) >= 5

\* if len(parts) > 5
has_block(parts) == Len(parts) > 5

NoEntry(e) == [exc |-> e, entry |-> <<>>]

\* parts[k], k counted from 0; reading past the end is an IndexError, which
\* entry_of reports
at(parts, k) == IF k < Len(parts) THEN parts[k + 1] ELSE <<>>

\* the entry, or the first exception raised while its fields were computed
\* in the order of the try block
entry_of(n, timestamp, name, cpu, mem, mem_pair, net_pair, block_pair) ==
    IF timestamp.exc # "none" THEN NoEntry(timestamp.exc)
    ELSE IF n < 3 THEN NoEntry("IndexError")
    ELSE IF cpu.exc # "none" THEN NoEntry(cpu.exc)
    ELSE IF n < 4 THEN NoEntry("IndexError")
    ELSE IF mem_pair.exc # "none" THEN NoEntry(mem_pair.exc)
    ELSE IF n < 5 THEN NoEntry("IndexError")
    ELSE IF net_pair.exc # "none" THEN NoEntry(net_pair.exc)
    ELSE IF block_pair.exc # "none" THEN NoEntry(block_pair.exc)
    ELSE [exc |-> "none",
          entry |-> [timestamp |-> timestamp.t,
                     name |-> name,
                     cpu |-> cpu.v,
                     mem |-> mem,
                     mem_used |-> mem_pair.a,
                     mem_total |-> mem_pair.b,
                     net_in |-> net_pair.a,
                     net_out |-> net_pair.b,
                     block_in |-> block_pair.a,
                     block_out |-> block_pair.b]]

\* the body of the try block
build_entry(parts) ==
    entry_of(Len(parts),
             to_datetime(at(parts, 0)),
             remove(at(parts, 1), TagName),
             float(remove(remove(at(parts, 2), TagCpu), <<"%">>)),
             remove(at(parts, 3), TagMem),
             parse_pair(remove(at(parts, 3), TagMem)),
             parse_pair(remove(at(parts, 4), TagNet)),
             IF has_block(parts)
             THEN IF Len(parts) < 6 THEN NoPair("IndexError")
                  ELSE parse_pair(remove(at(parts, 5), TagBlock))
             ELSE NoPair("none"))

\* a faulty variant of append: the entry is put in front
append_front(d, entry) == <<entry>> \o d

\* data.append(entry)
append(d, entry) == Append(d, entry)

\* the end of the iteration: an exception of the try block is swallowed
after_try(d, e) ==
    IF e.exc \in {"ValueError", "IndexError"} THEN d ELSE append(d, e.entry)

\* the iteration once the line is split
after_split(d, parts) ==
    IF Len(parts) < 5 THEN d ELSE after_try(d, build_entry(parts))

\* a faulty variant of split_tabs: line.split(), which splits at every run of whitespace
RECURSIVE split_blanks(_)
split_blanks(line) ==
    IF lstrip(line) = <<>> THEN <<>>
    ELSE LET t == lstrip(line)
             n == RunLen(t, {c \in Range(t) : ~IsSpace(c)})
         IN  <<Take(t, n)>> \o split_blanks(Drop(t, n))

\* line.split('\t')
split_tabs(line) == split(line, TAB)

\* one iteration of `for line in f`: data after the line
loop_body(d, line) ==
    IF strip(line) = <<>> THEN d
    ELSE after_split(d, split_tabs(clean_line(line)))

EntryColumns ==
    {"timestamp", "name", "cpu", "mem", "mem_used", "mem_total",
     "net_in", "net_out", "block_in", "block_out"}

\* pd.DataFrame(data): the columns are the keys of the rows, none without rows
DataFrame(rows) ==
    [columns |-> IF rows = <<>> THEN {} ELSE EntryColumns, rows |-> rows]

(* --------------------------- create_visualization ---------------------- *)

Column(rows, f) == [k \in DOMAIN rows |-> rows[k][f]]

\* Series.unique(): the distinct values in order of first appearance
RECURSIVE unique(_)
unique(xs) ==
    IF xs = <<>> THEN <<>>
    ELSE LET u == unique(Take(xs, Len(xs) - 1)) IN
         IF xs[Len(xs)] \in Range(u) THEN u ELSE Append(u, xs[Len(xs)])

colors ==
    <<"#1f77b4", "#ff7f0e", "#2ca02c", "#d62728", "#9467bd",
      "#8c564b", "#e377c2", "#7f7f7f", "#bcbd22", "#17becf">>

\* a faulty variant of color_of: the index is off by one
color_of_next(i) == colors[((i + 1) % Len(colors)) + 1]

\* colors[i % len(colors)], i counted from 0
color_of(i) == colors[(i % Len(colors)) + 1]

\* make_subplots(rows=4, cols=1, subplot_titles=..., shared_xaxes=True)
make_subplots ==
    [rows |-> 4,
     titles |-> <<"CPU Usage (%)", "Memory Usage (MB)",
                  "Network I/O (MB)", "Block I/O (MB)">>,
     shared_xaxes |-> TRUE,
     height |-> 0,
     traces |-> <<>>]

NoFigure == [rows |-> 0, titles |-> <<>>, shared_xaxes |-> FALSE,
             height |-> 0, traces |-> <<>>]

\* df[df['name'] == container]
container_data(rows, container) ==
    SelectSeq(rows, LAMBDA r : r.name = container)

\* go.Scatter(x=..., y=..., name=f"{container} - <label>", line=dict(...));
\* the trace name is kept as the pair (container, label)
Scatter(rows, container, field, label, color, dash, row) ==
    [x |-> Column(rows, "timestamp"),
     y |-> Column(rows, field),
     container |-> container,
     label |-> label,
     color |-> color,
     dash |-> dash,
     row |-> row]

\* the six fig.add_trace calls of iteration i
add_traces(figure, rows, i, container) ==
    LET cd == container_data(rows, container)
        color == color_of(i)
    IN  [figure EXCEPT !.traces = @ \o
            << Scatter(cd, container, "cpu", "CPU", color, "default", 1),
               Scatter(cd, container, "mem_used", "Memory", color, "default", 2),
               Scatter(cd, container, "net_in", "Net In", color, "solid", 3),
               Scatter(cd, container, "net_out", "Net Out", color, "dash", 3),
               Scatter(cd, container, "block_in", "Block In", color, "solid", 4),
               Scatter(cd, container, "block_out", "Block Out", color, "dash", 4) >>]

(* ------------------------------- inputs -------------------------------- *)

\* column tokens of the log lines
Ts1 == <<"0", "0", ":", "0", "1">>

Ts2 == <<"0", "0", ":", "0", "2">>

TsBad == <<"b", "o", "g", "u", "s">>

NameA == <<"n", "a", "m", "e", "=", "a">>

NameB == <<"n", "a", "m", "e", "=", "b">>

NameEsc == <<ESC, "[", "2", "J", ESC, "[", "H", "n", "a", "m", "e", "=", "a">>

CpuOk == <<"c", "p", "u", "=", "1", ".", "5", "%">>

CpuZero == <<"c", "p", "u", "=", "0", "%">>

CpuNeg == <<"c", "p", "u", "=", "-", "5", "%">>

CpuNan == <<"c", "p", "u", "=", "n", "a", "n", "%">>

CpuInf == <<"c", "p", "u", "=", "i", "n", "f", "%">>

CpuBad == <<"c", "p", "u", "=", "a", "b", "c", "%">>

MemOk == <<"m", "e", "m", "=", "1", "M", "i", "B", "/", "2", "G", "i", "B">>

MemSpaced == <<"m", "e", "m", "=", "1", ".", "5", "M", "i", "B", " ", "/", " ", "2", "G", "i", "B">>

MemNoSlash == <<"m", "e", "m", "=", "1", "M", "i", "B">>

MemWords == <<"m", "e", "m", "=", "a", "b", "c", "/", "d", "e", "f">>

MemDots == <<"m", "e", "m", "=", "1", ".", "2", ".", "3", "M", "B", "/", "1", "M", "B">>

NetOk == <<"n", "e", "t", "=", "1", "k", "B", "/", "0", "B">>

NetNoSlash == <<"n", "e", "t", "=", "1", "k", "B">>

BlockOk == <<"b", "l", "o", "c", "k", "=", "0", "B", "/", "8", "M", "B">>

BlockNoSlash == <<"b", "l", "o", "c", "k", "=", "5", "M", "B">>

\* the columns joined by tabs
RECURSIVE Join(_)
Join(cols) ==
    IF Len(cols) = 1 THEN cols[1]
    ELSE cols[1] \o <<TAB>> \o Join(Tail(cols))

\* a line as the file iterator yields it, with its line break
Line(cols) == Join(cols) \o <<NL>>

BlankLines ==
    { <<NL>>,
      <<" ", TAB, NL>> }

ControlLines ==
    { <<ESC, "[", "2", "J", ESC, "[", "H", NL>>,
      <<"[", "2", "J", "[", "H", " ", NL>> }

ShortLines ==
    { Line(<<Ts1, NameA, CpuOk, MemOk>>),
      Line(<<Ts1, NameA, CpuOk \o <<" ">> \o MemOk, NetOk>>),
      Line(<<Ts1>>) }

GoodLines ==
    { Line(<<Ts1, NameA, CpuOk, MemOk, NetOk>>),
      Join(<<Ts1, NameA, CpuOk, MemOk, NetOk>>),
      Line(<<Ts1, NameB, CpuZero, MemSpaced, NetOk>>),
      Line(<<Ts2, NameA, CpuOk, MemOk, NetOk, BlockOk>>),
      Line(<<Ts2, NameB, CpuZero, MemSpaced, NetOk, BlockOk>>),
      Line(<<Ts2, NameA, CpuOk, MemOk, NetOk, BlockOk, <<"x">> >>),
      Line(<<Ts1, NameEsc, CpuOk, MemOk, NetOk, BlockOk>>) }

OddLines ==
    { Line(<<Ts1, NameA, CpuBad, MemOk, NetOk>>),
      Line(<<Ts1, NameA, CpuNeg, MemOk, NetOk, BlockOk>>),
      Line(<<Ts1, NameA, CpuNan, MemOk, NetOk>>),
      Line(<<Ts1, NameA, CpuInf, MemOk, NetOk>>),
      Line(<<Ts1, NameA, CpuOk, MemNoSlash, NetOk>>),
      Line(<<Ts1, NameA, CpuOk, MemWords, NetOk>>),
      Line(<<Ts1, NameA, CpuOk, MemDots, NetOk>>),
      Line(<<Ts1, NameA, CpuOk, MemOk, NetNoSlash>>),
      Line(<<Ts1, NameA, CpuOk, MemOk, NetOk, BlockNoSlash>>),
      Line(<<TsBad, NameA, CpuOk, MemOk, NetOk>>) }

InputLines == BlankLines \cup ControlLines \cup ShortLines \cup GoodLines \cup OddLines

\* every string over the alphabet of at most n characters
Strings(alphabet, n) == UNION {[1..k -> alphabet] : k \in 0..n}

\* a unit in every letter case
CaseVariants(u) ==
    {[k \in DOMAIN u |-> IF k \in up THEN UpperChar(u[k]) ELSE u[k]] :
        up \in SUBSET DOMAIN u}

SupportedUnits ==
    { <<"b">>, <<"k", "b">>, <<"m", "b">>, <<"g", "b">>, <<"t", "b">>,
      <<"k", "i", "b">>, <<"m", "i", "b">>, <<"g", "i", "b">>, <<"t", "i", "b">> }

OtherUnits == { <<>>, <<"x">>, <<"p", "b">>, <<"M", "B", "s">>, <<"%">> }

Numerals == Strings({"0", "1", "5", "."}, MaxNumLen)

\* the size tokens handed to parse_size: numeral, unit, optional decoration
SizeTokens ==
    { pre \o num \o unit \o post :
        pre \in {<<>>, <<" ">>, <<"-">>},
        num \in Numerals,
        unit \in (UNION {CaseVariants(u) : u \in SupportedUnits}) \cup OtherUnits,
        post \in {<<>>, <<" ">>} }

\* the raw lines handed to clean_line
RawLines == Strings({ESC, "[", "2", ";", "K", "m", " ", "a"}, MaxRawLen)

\* the name of container number j
EntityName(j) ==
    IF j < 10 THEN <<"c", DigitSeq[j + 1]>>
    ELSE <<"c", DigitSeq[(j \div 10) + 1], DigitSeq[(j % 10) + 1]>>

\* the sample number k of a log of batches of n containers, listed from
\* container `first` on
BatchEntry(n, first, k) ==
    [timestamp |-> (k - 1) \div n,
     name |-> EntityName((first + k - 1) % n),
     cpu |-> Pow2(k, 0),
     mem |-> <<>>,
     mem_used |-> Pow2(k, 0),
     mem_total |-> Pow2(1024, 0),
     net_in |-> Pow2(k, -10),
     net_out |-> Zero,
     block_in |-> Zero,
     block_out |-> Pow2(k, 0)]

\* the sample collections handed to create_visualization
SampleCollections ==
    { <<>> } \cup
    { [k \in 1..(n * b) |-> BatchEntry(n, first, k)] :
        n \in 1..MaxEntities, first \in 0..(MaxEntities - 1), b \in 1..MaxBatches }

(* ------------------------------- actions ------------------------------- *)

\* parse_docker_stats: one iteration of the loop over the lines of the file
ReadLine(line) ==
    /\ pc = "reading"
    /\ Len(consumed) < MaxLines
    /\ consumed' = Append(consumed, line)
    /\ prev' = data
    /\ data' = loop_body(data, line)
    /\ UNCHANGED <<pc, arg, ret, df, containers, idx, fig>>

\* parse_docker_stats: the file is exhausted, return pd.DataFrame(data)
EndOfFile ==
    /\ pc = "reading"
    /\ df' = DataFrame(data)
    /\ pc' = "parsed"
    /\ UNCHANGED <<arg, ret, consumed, prev, data, containers, idx, fig>>

\* create_visualization up to the loop: df['name'] is a KeyError when the
\* frame has no such column
RenderStart ==
    /\ pc = "parsed"
    /\ IF "name" \in df.columns
       THEN /\ containers' = unique(Column(df.rows, "name"))
            /\ fig' = make_subplots
            /\ idx' = 0
            /\ pc' = "rendering"
       ELSE /\ pc' = "KeyError"
            /\ UNCHANGED <<containers, fig, idx>>
    /\ UNCHANGED <<arg, ret, consumed, prev, data, df>>

\* create_visualization: one iteration of `for i, container in enumerate(containers)`
RenderContainer ==
    /\ pc = "rendering"
    /\ idx < Len(containers)
    /\ fig' = add_traces(fig, df.rows, idx, containers[idx + 1])
    /\ idx' = idx + 1
    /\ UNCHANGED <<pc, arg, ret, consumed, prev, data, df, containers>>

\* create_visualization after the loop: update_layout(height=1200, ...), return fig
RenderFinish ==
    /\ pc = "rendering"
    /\ idx = Len(containers)
    /\ fig' = [fig EXCEPT !.height = 1200]
    /\ pc' = "rendered"
    /\ UNCHANGED <<arg, ret, consumed, prev, data, df, containers, idx>>

\* parse_size(arg)
CallParseSize ==
    /\ pc = "size"
    /\ ret' = parse_size(arg)
    /\ pc' = "size_done"
    /\ UNCHANGED <<arg, consumed, prev, data, df, containers, idx, fig>>

\* clean_line(arg)
CallCleanLine ==
    /\ pc = "clean"
    /\ ret' = clean_line(arg)
    /\ pc' = "clean_done"
    /\ UNCHANGED <<arg, consumed, prev, data, df, containers, idx, fig>>

(* ---------------------------- specifications --------------------------- *)

Idle ==
    /\ consumed = <<>>
    /\ prev = <<>>
    /\ data = <<>>
    /\ containers = <<>>
    /\ idx = 0
    /\ fig = NoFigure

\* main(): parse the file, then render the frame
Init ==
    /\ pc = "reading"
    /\ arg = <<>>
    /\ ret = <<>>
    /\ df = DataFrame(<<>>)
    /\ Idle

Next ==
    \/ \E line \in InputLines : ReadLine(line)
    \/ EndOfFile
    \/ RenderStart
    \/ RenderContainer
    \/ RenderFinish

Spec == Init /\ [][Next]_vars

\* create_visualization on a sample collection
InitRender ==
    /\ pc = "parsed"
    /\ arg = <<>>
    /\ ret = <<>>
    /\ df \in {DataFrame(rows) : rows \in SampleCollections}
    /\ Idle

NextRender == RenderStart \/ RenderContainer \/ RenderFinish

SpecRender == InitRender /\ [][NextRender]_vars

\* parse_size on a size token
InitSize ==
    /\ pc = "size"
    /\ arg \in SizeTokens
    /\ ret = <<>>
    /\ df = DataFrame(<<>>)
    /\ Idle

NextSize == CallParseSize

SpecSize == InitSize /\ [][NextSize]_vars

\* clean_line on a raw line
InitClean ==
    /\ pc = "clean"
    /\ arg \in RawLines
    /\ ret = <<>>
    /\ df = DataFrame(<<>>)
    /\ Idle

NextClean == CallCleanLine

SpecClean == InitClean /\ [][NextClean]_vars

(* ------------------------------ properties ----------------------------- *)

Last(q) == q[Len(q)]

\* what each input line yields when it is read into an empty collection
Yield == [l \in InputLines |-> loop_body(<<>>, l)]

\* each input line sanitized and split at its tabs
Parts == [l \in InputLines |-> split(clean_line(l), TAB)]

\* each input line sanitized
Cleaned == [l \in InputLines |-> clean_line(l)]

\* the samples the lines yield, each line on its own, in the order of the lines
RECURSIVE FilterMap(_)
FilterMap(ls) ==
    IF ls = <<>> THEN <<>>
    ELSE FilterMap(Take(ls, Len(ls) - 1)) \o Yield[Last(ls)]

\* the line the loop has just processed, sanitized and split at its tabs
LastParts == Parts[Last(consumed)]

\* the number of tab-separated columns of a sanitized line
Columns(cleaned) == 1 + Cardinality({k \in DOMAIN cleaned : cleaned[k] = TAB})

NumericFields ==
    {"cpu", "mem_used", "mem_total", "net_in", "net_out", "block_in", "block_out"}

\* a decimal numeral immediately followed by a supported unit suffix
IsSizeToken(t) ==
    LET n == RunLen(t, DigitChars \cup {"."}) IN
        /\ IsDecimal(Take(t, n))
        /\ lower(Drop(t, n)) \in SupportedUnits

\* a well-formed 'a / b' pair of size tokens
IsSizePair(field) ==
    LET halves == split(field, "/") IN
        /\ Len(halves) = 2
        /\ IsSizeToken(strip(halves[1]))
        /\ IsSizeToken(strip(halves[2]))

HasSlash(field) == \E k \in DOMAIN field : field[k] = "/"

\* C1 (as claimed): when no line read yields a sample the parser returns an
\* empty collection, and create_visualization on it does not raise and
\* returns a four-panel figure without traces.
C1_EmptyInputRenders ==
    (pc # "reading" /\ FilterMap(consumed) = <<>>) =>
        /\ df.rows = <<>>
        /\ pc # "KeyError"
        /\ pc = "rendered" => (fig.rows = 4 /\ fig.traces = <<>>)

\* C2: the collection is the order-preserving filter-map of the lines read;
\* a line leaves it unchanged or appends one sample, made from that line
\* alone, after the samples already there, so the samples of one entity keep
\* the order of that entity's lines.
C2_FilterMap ==
    /\ data = FilterMap(consumed)
    /\ consumed # <<>> =>
          \/ data = prev
          \/ /\ Len(data) = Len(prev) + 1
             /\ Take(data, Len(prev)) = prev
             /\ <<Last(data)>> = Yield[Last(consumed)]
    /\ \A c \in Range(Column(data, "name")) :
          container_data(data, c) =
              FilterMap(SelectSeq(consumed,
                  LAMBDA l : Column(Yield[l], "name") = <<c>>))

C2_Witness ==
    /\ Len(consumed) = 2
    /\ Len(data) = 2
    /\ data[1].name = data[2].name
    /\ data[1] # data[2]

\* C3 (as claimed): every sample of the collection has cpu, mem_used,
\* mem_total, net_in, net_out, block_in and block_out finite and
\* non-negative.
C3_FiniteNonNegative ==
    \A k \in DOMAIN data : \A f \in NumericFields : IsFiniteNonNeg(data[k][f])

C5_NeverRaises ==
    pc = "size_done" =>
        /\ ret.exc = "none"
        /\ (arg = <<>> \/ arg = <<"0", "B">> \/ ~IsSizeToken(strip(arg)))
              => ret.v = Zero

\* the multiplier table of the claim: the megabytes of one unit
ClaimedMultiplier(unit) ==
    CASE unit = <<"b">> -> Pow2(1, -20)
      [] unit \in {<<"k", "b">>, <<"k", "i", "b">>} -> Pow2(1, -10)
      [] unit \in {<<"m", "b">>, <<"m", "i", "b">>} -> Pow2(1, 0)
      [] unit \in {<<"g", "b">>, <<"g", "i", "b">>} -> Pow2(1, 10)
      [] unit \in {<<"t", "b">>, <<"t", "i", "b">>} -> Pow2(1, 20)

\* the binary spelling of a unit: kb -> kib, mb -> mib, gb -> gib, tb -> tib
Binary(unit) ==
    IF Len(unit) = 2 /\ unit[1] # "b" THEN <<unit[1], "i", unit[2]>> ELSE unit

\* C6: for a decimal numeral v and a supported suffix in any letter case,
\* parse_size(v+suffix) is v times the multiplier of the table; it equals
\* the result for the binary spelling of the suffix and is v times the
\* result for the numeral 1.
C6_MultiplierTable ==
    LET n == RunLen(arg, DigitChars \cup {"."})
        v == Take(arg, n)
        suffix == Drop(arg, n)
    IN  (pc = "size_done" /\ IsDecimal(v) /\ lower(suffix) \in SupportedUnits) =>
            /\ ret = Return(Times(Fin(FALSE, DecimalValue(v)),
                                  ClaimedMultiplier(lower(suffix))))
            /\ ret = parse_size(v \o Binary(lower(suffix)))
            /\ ret.v = Times(Fin(FALSE, DecimalValue(v)),
                             parse_size(<<"1">> \o suffix).v)

C6_Witness ==
    /\ pc = "size_done"
    /\ arg = <<"1", ".", "5", "G", "b">>
    /\ ret = Return(Pow2(1536, 0))

\* an escape sequence at the start of s: ESC, '[', parameter bytes, a letter
EscapeLen(s) ==
    IF Len(s) >= 3 /\ s[1] = ESC /\ s[2] = "["
    THEN LET p == RunLen(Drop(s, 2), DigitChars \cup {";"}) IN
         IF Len(s) >= p + 3 /\ IsLetter(s[p + 3]) THEN p + 3 ELSE 0
    ELSE 0

\* s without its escape sequences
RECURSIVE WithoutEscapes(_)
WithoutEscapes(s) ==
    IF s = <<>> THEN s
    ELSE IF EscapeLen(s) > 0 THEN WithoutEscapes(Drop(s, EscapeLen(s)))
    ELSE <<s[1]>> \o WithoutEscapes(Tail(s))

\* C7 (as claimed): clean_line leaves no byte of an escape sequence (ESC,
\* '[', parameter bytes, a letter) behind, so a line of such sequences and
\* whitespace only is reduced to the empty string.
C7_EscapesRemoved ==
    pc = "clean_done" =>
        /\ strip(WithoutEscapes(arg)) = <<>> => ret = <<>>
        /\ (\A k \in DOMAIN arg : arg[k] = ESC => EscapeLen(Drop(arg, k - 1)) > 0)
              => \A k \in DOMAIN ret : ret[k] # ESC

\* C8: a line that has fewer than 5 tab-separated columns after sanitization
\* leaves the collection as it was.
C8_ShortLineSkipped ==
    (consumed # <<>> /\ Columns(Cleaned[Last(consumed)]) < 5) => data = prev

C8_Witness ==
    /\ Len(consumed) = 2
    /\ Columns(Cleaned[Last(consumed)]) = 4
    /\ Len(prev) = 1
    /\ data = prev

\* the five columns are a timestamp, a name, a decimal CPU percentage and
\* two pairs of size tokens
WellFormed5(parts) ==
    /\ Len(parts) = 5
    /\ to_datetime(parts[1]).exc = "none"
    /\ StartsWith(parts[2], TagName)
    /\ StartsWith(parts[3], TagCpu)
    /\ Last(parts[3]) = "%"
    /\ IsDecimal(SubSeq(parts[3], Len(TagCpu) + 1, Len(parts[3]) - 1))
    /\ StartsWith(parts[4], TagMem)
    /\ IsSizePair(Drop(parts[4], Len(TagMem)))
    /\ StartsWith(parts[5], TagNet)
    /\ IsSizePair(Drop(parts[5], Len(TagNet)))

\* C9: a line of exactly 5 well-formed columns appends a sample whose
\* block_in and block_out are 0 and whose other fields are those of the same
\* line with a block column added.
C9_BlockDefaultsToZero ==
    (consumed # <<>> /\ WellFormed5(LastParts)) =>
        LET with_block == build_entry(Append(LastParts, BlockOk)) IN
            /\ Len(data) = Len(prev) + 1
            /\ Last(data).block_in = Zero
            /\ Last(data).block_out = Zero
            /\ with_block.exc = "none"
            /\ \A f \in EntryColumns \ {"block_in", "block_out"} :
                   Last(data)[f] = with_block.entry[f]

C9_Witness ==
    /\ consumed # <<>>
    /\ WellFormed5(LastParts)
    /\ Len(data) = 2
    /\ Last(data).block_out = Zero
    /\ data[1].block_out # Zero

\* the number of distinct names before the first occurrence of c
DiscoveryIndex(names, c) ==
    LET first == CHOOSE k \in DOMAIN names :
                     names[k] = c /\ \A j \in 1..(k - 1) : names[j] # c
    IN  Cardinality({names[j] : j \in 1..(first - 1)})

TraceLabels == {"CPU", "Memory", "Net In", "Net Out", "Block In", "Block Out"}

ColorsOf(c) ==
    {fig.traces[k].color : k \in {j \in DOMAIN fig.traces : fig.traces[j].container = c}}

\* C10: the palette has 10 distinct colors; every trace of the i-th entity
\* in order of first occurrence has color palette[i mod 10]; the finished
\* figure holds six traces for each entity, and two entities share a color
\* exactly when their indices are congruent modulo 10.
C10_ColorByDiscoveryOrder ==
    LET names == Column(df.rows, "name") IN
        /\ Cardinality(Range(colors)) = 10
        /\ \A k \in DOMAIN fig.traces :
              fig.traces[k].color =
                  colors[(DiscoveryIndex(names, fig.traces[k].container) % 10) + 1]
        /\ pc = "rendered" =>
              /\ \A c \in Range(names) :
                    /\ {fig.traces[k].label : k \in {j \in DOMAIN fig.traces :
                            fig.traces[j].container = c}} = TraceLabels
                    /\ Cardinality({j \in DOMAIN fig.traces :
                            fig.traces[j].container = c}) = 6
                    /\ Cardinality(ColorsOf(c)) = 1
              /\ \A c, d \in Range(names) :
                    (ColorsOf(c) = ColorsOf(d)) <=>
                        (DiscoveryIndex(names, c) % 10 = DiscoveryIndex(names, d) % 10)

C10_Witness ==
    /\ pc = "rendered"
    /\ Len(containers) > 10
    /\ containers[1] # containers[11]
    /\ ColorsOf(containers[1]) = ColorsOf(containers[11])
    /\ ColorsOf(containers[1]) # ColorsOf(containers[2])

====
